---------------------------- MODULE Spec2Model ----------------------------
(***************************************************************************)
(* A model of telegram_news_bot.py: the hourly monitoring loop of          *)
(* TelegramChannelNewsBot (scrape every source, keep the articles scoring  *)
(* 7 or more that are not in the sent cache, save them, sort, keep the     *)
(* top 10, send each to the channel, mark the sent ones), together with    *)
(* the importance score and the content hash computed on the text of the   *)
(* entries.                                                                *)
(*                                                                         *)
(* Text is a sequence of one-character strings, so that lower-casing,      *)
(* substring search, tag stripping and title cleaning are computed, not    *)
(* assumed.  Titles, urls and descriptions are kept in the state by their  *)
(* index in TitleText, UrlText and DescriptionText.                        *)
(***************************************************************************)
EXTENDS Integers, Sequences, FiniteSets, TLC

(***************************************************************************)
(* The text the feeds of the model carry.                                  *)
(***************************************************************************)
TitleText ==
    << <<"A", "p", "p", "l", "e", " ", "a", "n", "n", "o", "u", "n", "c", "e", "s", " ", "B", "R", "E", "A", "K", "I", "N", "G", " ", "a", "c", "q", "u", "i", "s", "i", "t", "i", "o", "n">>,
       <<"a", "p", "p", "l", "e", " ", "a", "n", "n", "o", "u", "n", "c", "e", "s", " ", "b", "r", "e", "a", "k", "i", "n", "g", " ", "a", "c", "q", "u", "i", "s", "i", "t", "i", "o", "n", "!">>,
       <<"C", "h", "i", "p", " ", "n", "e", "w", "s">>,
       <<"B", "a", "n", "k", "r", "u", "p", "t", "c", "y", " ", "f", "i", "l", "i", "n", "g">>,
       <<"L", "o", "c", "a", "l", " ", "c", "a", "f", "e", " ", "o", "p", "e", "n", "s", " ", "d", "o", "w", "n", "t", "o", "w", "n">> >>

UrlText ==
    << <<"a", ".", "i", "o", "/", "1">>,
       <<"b", ".", "i", "n", "/", "2">>,
       <<"c", ".", "i", "o", "/", "3">>,
       <<"d", ".", "i", "o", "/", "4">> >>

DescriptionText ==
    << <<>>,
       <<"<", "a", " ", "h", "r", "e", "f", "=", "x", "/", "i", "p", "o", ">", "N", "v", "i", "d", "i", "a", "<", "/", "a", ">", " ", "a", "n", "d", " ", "U", "b", "e", "r">>,
       <<"N", "v", "i", "d", "i", "a", " ", "b", "i", "t", "c", "o", "i", "n">>,
       <<"i", "p", "o", " ", "a", "n", "d", " ", "5", "g">>,
       <<"a", "l", "e", "r", "t", ":", " ", "U", "b", "e", "r">> >>

breaking_urgent ==
    << <<"b", "r", "e", "a", "k", "i", "n", "g">>,
       <<"u", "r", "g", "e", "n", "t">>,
       <<"a", "l", "e", "r", "t">>,
       <<"m", "a", "j", "o", "r", " ", "a", "n", "n", "o", "u", "n", "c", "e", "m", "e", "n", "t">>,
       <<"m", "a", "s", "s", "i", "v", "e">>,
       <<"h", "i", "s", "t", "o", "r", "i", "c">>,
       <<"u", "n", "p", "r", "e", "c", "e", "d", "e", "n", "t", "e", "d">>,
       <<"e", "m", "e", "r", "g", "e", "n", "c", "y">>,
       <<"j", "u", "s", "t", " ", "i", "n">>,
       <<"d", "e", "v", "e", "l", "o", "p", "i", "n", "g">> >>

indian_companies ==
    << <<"p", "a", "y", "t", "m">>,
       <<"f", "l", "i", "p", "k", "a", "r", "t">>,
       <<"z", "o", "m", "a", "t", "o">>,
       <<"s", "w", "i", "g", "g", "y">>,
       <<"b", "y", "j", "u">>,
       <<"o", "y", "o">>,
       <<"o", "l", "a">>,
       <<"p", "h", "o", "n", "e", "p", "e">>,
       <<"r", "a", "z", "o", "r", "p", "a", "y">>,
       <<"c", "r", "e", "d">>,
       <<"d", "r", "e", "a", "m", "1", "1">>,
       <<"n", "y", "k", "a", "a">>,
       <<"t", "c", "s">>,
       <<"i", "n", "f", "o", "s", "y", "s">>,
       <<"w", "i", "p", "r", "o">>,
       <<"r", "e", "l", "i", "a", "n", "c", "e">>,
       <<"j", "i", "o">>,
       <<"a", "i", "r", "t", "e", "l">> >>

global_tech_giants ==
    << <<"a", "p", "p", "l", "e">>,
       <<"g", "o", "o", "g", "l", "e">>,
       <<"m", "i", "c", "r", "o", "s", "o", "f", "t">>,
       <<"a", "m", "a", "z", "o", "n">>,
       <<"m", "e", "t", "a">>,
       <<"f", "a", "c", "e", "b", "o", "o", "k">>,
       <<"t", "e", "s", "l", "a">>,
       <<"n", "v", "i", "d", "i", "a">>,
       <<"o", "p", "e", "n", "a", "i">>,
       <<"c", "h", "a", "t", "g", "p", "t">>,
       <<"n", "e", "t", "f", "l", "i", "x">>,
       <<"u", "b", "e", "r">>,
       <<"a", "i", "r", "b", "n", "b">> >>

high_impact_events ==
    << <<"i", "p", "o">>,
       <<"a", "c", "q", "u", "i", "s", "i", "t", "i", "o", "n">>,
       <<"m", "e", "r", "g", "e", "r">>,
       <<"f", "u", "n", "d", "i", "n", "g">>,
       <<"b", "a", "n", "k", "r", "u", "p", "t", "c", "y">>,
       <<"l", "a", "y", "o", "f", "f", "s">>,
       <<"h", "i", "r", "i", "n", "g", " ", "f", "r", "e", "e", "z", "e">>,
       <<"d", "a", "t", "a", " ", "b", "r", "e", "a", "c", "h">>,
       <<"h", "a", "c", "k">>,
       <<"c", "y", "b", "e", "r", " ", "a", "t", "t", "a", "c", "k">>,
       <<"s", "t", "o", "c", "k", " ", "c", "r", "a", "s", "h">>,
       <<"m", "a", "r", "k", "e", "t", " ", "s", "u", "r", "g", "e">> >>

tech_breakthroughs ==
    << <<"a", "i", " ", "b", "r", "e", "a", "k", "t", "h", "r", "o", "u", "g", "h">>,
       <<"q", "u", "a", "n", "t", "u", "m", " ", "c", "o", "m", "p", "u", "t", "i", "n", "g">>,
       <<"a", "u", "t", "o", "n", "o", "m", "o", "u", "s">>,
       <<"e", "l", "e", "c", "t", "r", "i", "c", " ", "v", "e", "h", "i", "c", "l", "e">>,
       <<"c", "r", "y", "p", "t", "o", "c", "u", "r", "r", "e", "n", "c", "y">>,
       <<"b", "i", "t", "c", "o", "i", "n">>,
       <<"e", "t", "h", "e", "r", "e", "u", "m">>,
       <<"b", "l", "o", "c", "k", "c", "h", "a", "i", "n">>,
       <<"5", "g">>,
       <<"m", "e", "t", "a", "v", "e", "r", "s", "e">> >>

urgent_words ==
    << <<"b", "r", "e", "a", "k", "i", "n", "g">>,
       <<"u", "r", "g", "e", "n", "t">>,
       <<"m", "a", "j", "o", "r">>,
       <<"m", "a", "s", "s", "i", "v", "e">>,
       <<"h", "i", "s", "t", "o", "r", "i", "c">>,
       <<"u", "n", "p", "r", "e", "c", "e", "d", "e", "n", "t", "e", "d">> >>

company_words ==
    << <<"a", "p", "p", "l", "e">>,
       <<"g", "o", "o", "g", "l", "e">>,
       <<"m", "i", "c", "r", "o", "s", "o", "f", "t">>,
       <<"a", "m", "a", "z", "o", "n">>,
       <<"t", "e", "s", "l", "a">>,
       <<"o", "p", "e", "n", "a", "i">>,
       <<"m", "e", "t", "a">> >>

event_words ==
    << <<"i", "p", "o">>,
       <<"a", "c", "q", "u", "i", "s", "i", "t", "i", "o", "n">>,
       <<"m", "e", "r", "g", "e", "r">>,
       <<"f", "u", "n", "d", "i", "n", "g">>,
       <<"l", "a", "y", "o", "f", "f", "s">>,
       <<"h", "a", "c", "k">>,
       <<"b", "r", "e", "a", "c", "h">> >>

locale_words ==
    << <<"i", "n", "d", "i", "a">>,
       <<"i", "n", "d", "i", "a", "n">>,
       <<"r", "u", "p", "e", "e">>,
       <<"m", "u", "m", "b", "a", "i">>,
       <<"d", "e", "l", "h", "i">> >>

UpperCase ==
    <<"A", "B", "C", "D", "E", "F", "G", "H", "I", "J", "K", "L", "M", "N", "O", "P", "Q", "R", "S", "T", "U", "V", "W", "X", "Y", "Z">>

LowerCase ==
    <<"a", "b", "c", "d", "e", "f", "g", "h", "i", "j", "k", "l", "m", "n", "o", "p", "q", "r", "s", "t", "u", "v", "w", "x", "y", "z">>

Digits ==
    <<"0", "1", "2", "3", "4", "5", "6", "7", "8", "9">>

(***************************************************************************)
(* Program constants.                                                      *)
(***************************************************************************)
BreakingUrgentWeight == 8
HighImpactEventWeight == 6
CompanyWeight == 4
TechBreakthroughWeight == 5
UrgentTitleBonus == 8
CompanyTitleBonus == 6
EventTitleBonus == 7
IndianTitleBonus == 3
ScoreCap == 15
ImportanceThreshold == 7
UrgentScore == 12
BreakingScore == 9
FeedItemLimit == 10
TopArticles == 10
CacheLimit == 1000
CheckInterval == 3600
RetryInterval == 300

(***************************************************************************)
(* Bounds of the model.                                                    *)
(***************************************************************************)
\* news_sources has 15 feeds; the model scrapes this many, in dict order.
NumSources == 2

(***************************************************************************)
(* Text helpers: str.lower, the substring test `in`, re.sub and strip.     *)
(***************************************************************************)
Min(a, b) == IF a < b THEN a ELSE b

LowerChar(c) ==
    IF \E i \in 1..Len(UpperCase) : UpperCase[i] = c
    THEN LowerCase[CHOOSE i \in 1..Len(UpperCase) : UpperCase[i] = c]
    ELSE c

lower(str) == [i \in 1..Len(str) |-> LowerChar(str[i])]

\* Python's `needle in haystack` on strings.
IsIn(needle, haystack) ==
    \E i \in 1..(Len(haystack) - Len(needle) + 1) :
        SubSeq(haystack, i, i + Len(needle) - 1) = needle

\* any(word in text for word in words)
AnyIn(words, text) == \E i \in 1..Len(words) : IsIn(words[i], text)

\* sum(1 for keyword in keywords if keyword in text)
Matches(keywords, text) ==
    Cardinality({i \in 1..Len(keywords) : IsIn(keywords[i], text)})

IsWordChar(c) ==
    \/ \E i \in 1..Len(LowerCase) : LowerCase[i] = c
    \/ \E i \in 1..Len(UpperCase) : UpperCase[i] = c
    \/ \E i \in 1..Len(Digits) : Digits[i] = c
    \/ c = "_"

IsSpace(c) == c = " "

\* str.strip(): drop the leading and the trailing whitespace.
RECURSIVE LStrip(_)
LStrip(str) ==
    IF str # <<>> /\ IsSpace(Head(str)) THEN LStrip(Tail(str)) ELSE str

RECURSIVE RStrip(_)
RStrip(str) ==
    IF str # <<>> /\ IsSpace(str[Len(str)])
    THEN RStrip(SubSeq(str, 1, Len(str) - 1))
    ELSE str

strip(str) == RStrip(LStrip(str))

\* re.sub(r'[^\w\s]', '', str): keep the word characters and the whitespace.
RECURSIVE DropPunctuation(_)
DropPunctuation(str) ==
    IF str = <<>> THEN <<>>
    ELSE IF IsWordChar(Head(str)) \/ IsSpace(Head(str))
         THEN <<Head(str)>> \o DropPunctuation(Tail(str))
         ELSE DropPunctuation(Tail(str))

\* re.sub(r'<[^>]+>', '', str): a tag is a "<", one or more characters other
\* than ">", and the next ">".
RECURSIVE StripTags(_)
StripTags(str) ==
    IF str = <<>> THEN <<>>
    ELSE LET closes == {j \in 2..Len(str) : str[j] = ">"}
             close == CHOOSE j \in closes : \A k \in closes : j <= k
         IN  IF Head(str) = "<" /\ closes # {} /\ close >= 3
             THEN StripTags(SubSeq(str, close + 1, Len(str)))
             ELSE <<Head(str)>> \o StripTags(Tail(str))

(***************************************************************************)
(* calculate_importance_score                                              *)
(***************************************************************************)
CategoryScore(text) ==
      Matches(breaking_urgent, text) * BreakingUrgentWeight
    + Matches(indian_companies, text) * CompanyWeight
    + Matches(global_tech_giants, text) * CompanyWeight
    + Matches(high_impact_events, text) * HighImpactEventWeight
    + Matches(tech_breakthroughs, text) * TechBreakthroughWeight

\* A score without the bonuses of the title.
TitleBonus_none(title_lower) == 0

TitleBonus(title_lower) ==
      (IF AnyIn(urgent_words, title_lower) THEN UrgentTitleBonus ELSE 0)
    + (IF AnyIn(company_words, title_lower) THEN CompanyTitleBonus ELSE 0)
    + (IF AnyIn(event_words, title_lower) THEN EventTitleBonus ELSE 0)
    + (IF AnyIn(locale_words, title_lower) THEN IndianTitleBonus ELSE 0)

\* A score that is returned without the min.
calculate_importance_score_uncapped(title, content) ==
    CategoryScore(lower(title \o <<" ">> \o content)) + TitleBonus(lower(title))

calculate_importance_score(title, content) ==
    LET text == lower(title \o <<" ">> \o content)
        title_lower == lower(title)
    IN  Min(CategoryScore(text) + TitleBonus(title_lower), ScoreCap)

(***************************************************************************)
(* create_content_hash.  The md5 digest is modelled as an injective map of *)
(* the hashed content: the digest of a content is its index in             *)
(* HashedContents, the contents the entries of the model can produce.      *)
(***************************************************************************)
HashInput(title, url) ==
    strip(DropPunctuation(lower(title))) \o <<":">> \o url

HashedContents ==
    {HashInput(TitleText[t], UrlText[u]) :
        t \in 1..Len(TitleText), u \in 1..Len(UrlText)}

RECURSIVE Enumerate(_)
Enumerate(S) ==
    IF S = {} THEN <<>>
    ELSE LET x == CHOOSE y \in S : TRUE IN <<x>> \o Enumerate(S \ {x})

DigestTable == Enumerate(HashedContents)

md5(content) == CHOOSE h \in 1..Len(DigestTable) : DigestTable[h] = content

create_content_hash(title, url) == md5(HashInput(title, url))

(***************************************************************************)
(* The feeds.  A raw entry is an <item> of a feed document: the indices of *)
(* its title, link and description text, 0 for a missing element.          *)
(***************************************************************************)
RawEntry(t, u, d) == [title |-> t, link |-> u, description |-> d]

AppleNews == RawEntry(1, 1, 1)      \* scores 15
AppleAgain == RawEntry(2, 1, 1)     \* scores 15, the hash of AppleNews
ChipNews == RawEntry(3, 2, 2)       \* scores 8 once its tags are stripped
ChipUpdate == RawEntry(3, 2, 3)     \* scores 9, the hash of ChipNews
ChipRumour == RawEntry(3, 2, 4)     \* scores 11, the hash of ChipNews
ChipAlert == RawEntry(3, 2, 5)      \* scores 12, the hash of ChipNews
BankruptcyNews == RawEntry(4, 3, 1) \* scores 6
CafeNews == RawEntry(5, 4, 1)       \* scores 0
NoLink == RawEntry(3, 0, 2)         \* an item without a <link>

\* The documents a source can serve: a long one (12 items, of which the
\* first 10 are read) and a short one.
FeedDocuments ==
    << << ChipNews, AppleNews, BankruptcyNews, AppleAgain, AppleNews, CafeNews,
          AppleAgain, NoLink, AppleNews, AppleAgain, ChipNews, AppleNews >>,
       << ChipUpdate, AppleNews, ChipAlert, ChipRumour, CafeNews >> >>

Sources == 1..NumSources
Documents == 1..Len(FeedDocuments)

\* title = title_elem.get_text().strip(), description stripped of its tags.
ImportanceTable ==
    [t \in 1..Len(TitleText) |-> [d \in 1..Len(DescriptionText) |->
        calculate_importance_score(strip(TitleText[t]),
                                   StripTags(strip(DescriptionText[d])))]]

HashTable ==
    [t \in 1..Len(TitleText) |-> [u \in 1..Len(UrlText) |->
        create_content_hash(strip(TitleText[t]), strip(UrlText[u]))]]

Importance(item) == ImportanceTable[item.title][item.description]

ContentHash(item) == HashTable[item.title][item.link]

\* The hashes the entries of the feeds can have.
Hashes ==
    {ContentHash(FeedDocuments[d][i]) :
        <<d, i>> \in {<<d, i>> \in Documents \X (1..12) :
                        /\ i <= Len(FeedDocuments[d])
                        /\ FeedDocuments[d][i].title # 0
                        /\ FeedDocuments[d][i].link # 0}}

(***************************************************************************)
(* The articles table: a row per content_hash, or NoRow.  Of a row the     *)
(* model keeps sent_to_channel and whether created_at is within the week   *)
(* load_sent_articles_cache asks for.  The query reads created_at of the   *)
(* rows with sent_to_channel = 1 only, so the age of the other rows is not *)
(* followed: they are kept as recent.                                      *)
(***************************************************************************)
NoRow == [present |-> FALSE, sent_to_channel |-> FALSE, recent |-> FALSE]

Row(sent, recent) == [present |-> TRUE, sent_to_channel |-> sent, recent |-> recent]

Rows == {NoRow, Row(FALSE, TRUE), Row(TRUE, TRUE), Row(TRUE, FALSE)}

\* The number of cached hashes of articles no feed of the model carries.
Backlogs == {0, CacheLimit - 1}

VARIABLES
    pc,                    \* where run_monitoring is
    feeds,                 \* the document each source serves now
    articles,              \* the articles table
    sent_articles_cache,   \* self.sent_articles_cache, the hashes of the model
    backlog,               \* the other hashes in self.sent_articles_cache
    source_index,          \* the source scrape_all_sources is at
    all_articles,          \* all_articles of scrape_all_sources
    high_impact_articles,  \* what scrape_all_sources returned
    article_index,         \* the article the send loop is at
    sleeping,              \* the seconds of the sleep in progress
    found,                 \* history: len(all_articles) before the cut
    left_out,              \* history: the articles of all_articles the cut dropped
    deliveries,            \* history: successful sends of this cycle, per hash
    deliveries_before,     \* history: those of the cycle before
    failed_sends,          \* history: hashes whose send failed, until the next batch
    confirmed,             \* history: hashes sent with success, or sent at startup
    failed_sources,        \* history: the sources whose fetch failed in this cycle
    attempted,             \* history: the disc of the articles send_to_channel was called with
    last_send,             \* history: what the last send_to_channel of the cycle returned
    urgency,               \* history: the urgency of its message
    pinned,                \* history: what became of its pin_chat_message, if any
    republished,           \* history: a feed changed since the last cycle began
    repeat,                \* history: this cycle fetches what the last one fetched
    hashed,                \* history: the scores create_content_hash was reached with
    error_from,            \* history: what raised the last cycle error
    stop_from,             \* history: where the stop signal was raised
    notice,                \* history: the shutdown notice was attempted
    title_words,           \* a call of calculate_importance_score: the words of title
    content_words,         \* the words of content
    returned_score,        \* what the call returned
    clock,                 \* the hours since 2026-01-01 00:00 UTC
    created,               \* the clock when a row with sent_to_channel = 1 was written
    utc_offset,            \* the hours the local time of datetime.now() is ahead of UTC
    loaded                 \* the last load_sent_articles_cache put the row in the cache

vars ==
    << pc, feeds, articles, sent_articles_cache, backlog, source_index,
       all_articles, high_impact_articles, article_index, sleeping, found,
       left_out, deliveries, deliveries_before, failed_sends, confirmed,
       failed_sources, attempted, last_send, urgency, pinned, republished,
       repeat, hashed, error_from, stop_from, notice,
       title_words, content_words, returned_score, clock, created, utc_offset,
       loaded >>

score_vars == << title_words, content_words, returned_score >>

time_vars == << clock, created, utc_offset, loaded >>

probe_vars == << score_vars, time_vars >>

loop_vars ==
    << pc, feeds, articles, sent_articles_cache, backlog, source_index,
       all_articles, high_impact_articles, article_index, sleeping, found,
       left_out, deliveries, deliveries_before, failed_sends, confirmed,
       failed_sources, attempted, last_send, urgency, pinned, republished,
       repeat, hashed, error_from, stop_from, notice >>

store_vars == << articles, sent_articles_cache, backlog >>

cycle_vars ==
    << source_index, all_articles, high_impact_articles, article_index, found,
       left_out >>

history_vars ==
    << deliveries, deliveries_before, failed_sends, confirmed, failed_sources,
       attempted, last_send, urgency, pinned, republished, repeat, hashed >>

(***************************************************************************)
(* load_sent_articles_cache                                                *)
(***************************************************************************)
load_sent_articles_cache(table) ==
    {h \in Hashes : table[h].present /\ table[h].sent_to_channel /\ table[h].recent}

(***************************************************************************)
(* scrape_rss_feed: the articles of the first 10 items that have a title   *)
(* and a link, score 7 or more and are not in the cache.  disc numbers the *)
(* articles of a cycle in the order they are found.                        *)
(***************************************************************************)
NewsItem(item, source_name, disc) ==
    [ title |-> item.title,
      url |-> item.link,
      source |-> source_name,
      importance_score |-> Importance(item),
      content_hash |-> ContentHash(item),
      disc |-> disc ]

RecentItems(document) == SubSeq(document, 1, Min(Len(document), FeedItemLimit))

HasTitleAndLink(item) == item.title # 0 /\ item.link # 0

\* A filter that lets every score through.
IsHighImpact_any(importance) == importance >= 0

IsHighImpact(importance) == importance >= ImportanceThreshold

IsCandidate(item, cache) ==
    /\ HasTitleAndLink(item)
    /\ IsHighImpact(Importance(item))
    /\ ContentHash(item) \notin cache

RECURSIVE Candidates(_, _)
Candidates(items, cache) ==
    IF items = <<>> THEN <<>>
    ELSE (IF IsCandidate(Head(items), cache) THEN <<Head(items)>> ELSE <<>>)
         \o Candidates(Tail(items), cache)

scrape_rss_feed(source_name, document, cache, already) ==
    LET kept == Candidates(RecentItems(document), cache)
    IN  [i \in 1..Len(kept) |-> NewsItem(kept[i], source_name, already + i)]

\* The scores of the items whose content hash is computed (line 276).
HashedScores(document) ==
    {Importance(RecentItems(document)[i]) :
        i \in {j \in 1..Len(RecentItems(document)) :
                /\ HasTitleAndLink(RecentItems(document)[j])
                /\ IsHighImpact(Importance(RecentItems(document)[j]))}}

(***************************************************************************)
(* save_article: INSERT OR REPLACE, which writes a new row with a new      *)
(* created_at.                                                             *)
(***************************************************************************)
save_article(table, article, sent_to_channel) ==
    [table EXCEPT ![article.content_hash] = Row(sent_to_channel, TRUE)]

\* A save that marks the scraped article sent.
SaveScraped_sent(table, article) == save_article(table, article, TRUE)

\* for article in articles: self.save_article(article)
SaveScraped(table, article) == save_article(table, article, FALSE)

RECURSIVE SaveAll(_, _)
SaveAll(table, scraped) ==
    IF scraped = <<>> THEN table
    ELSE SaveAll(SaveScraped(table, Head(scraped)), Tail(scraped))

(***************************************************************************)
(* all_articles.sort(key=importance_score, reverse=True): a stable sort,   *)
(* equal scores keep their order.  Then all_articles[:10].                 *)
(***************************************************************************)
\* An insertion that puts an article ahead of the articles of its score.
InsertByImportance_unstable(article, sorted) ==
    LET before == {i \in 1..Len(sorted) :
                     sorted[i].importance_score > article.importance_score}
        n == Cardinality(before)
    IN  SubSeq(sorted, 1, n) \o <<article>> \o SubSeq(sorted, n + 1, Len(sorted))

InsertByImportance(article, sorted) ==
    LET before == {i \in 1..Len(sorted) :
                     sorted[i].importance_score >= article.importance_score}
        n == Cardinality(before)
    IN  SubSeq(sorted, 1, n) \o <<article>> \o SubSeq(sorted, n + 1, Len(sorted))

\* No sort: the articles stay in the order they were found.
SortByImportance_none(sorted, rest) == sorted \o rest

RECURSIVE SortByImportance(_, _)
SortByImportance(sorted, rest) ==
    IF rest = <<>> THEN sorted
    ELSE SortByImportance(InsertByImportance(Head(rest), sorted), Tail(rest))

\* A return without the [:10].
Top_uncut(sorted) == sorted

Top(sorted) == SubSeq(sorted, 1, Min(Len(sorted), TopArticles))

SelectTop(found_articles) == Top(SortByImportance(<<>>, found_articles))

\* The articles of all_articles that are not among the returned ones.
LeftOut(found_articles, returned) ==
    {found_articles[i] :
        i \in {j \in 1..Len(found_articles) :
                 \A k \in 1..Len(returned) :
                     returned[k].disc # found_articles[j].disc}}

(***************************************************************************)
(* The state after TelegramChannelNewsBot() is constructed: the database   *)
(* of earlier runs holds rows of high-impact articles only, and the cache  *)
(* is loaded from it.                                                      *)
(***************************************************************************)
HighImpactHashes ==
    {ContentHash(FeedDocuments[d][i]) :
        <<d, i>> \in {<<d, i>> \in Documents \X (1..12) :
                        /\ i <= Len(FeedDocuments[d])
                        /\ HasTitleAndLink(FeedDocuments[d][i])
                        /\ Importance(FeedDocuments[d][i]) >= ImportanceThreshold}}

Tables ==
    {table \in [Hashes -> Rows] :
        \A h \in Hashes \ HighImpactHashes : table[h] = NoRow}

SentRows(table) == {h \in Hashes : table[h].present /\ table[h].sent_to_channel}

NoDeliveries == [h \in Hashes |-> 0]

\* No call of calculate_importance_score is followed.
NotScoring ==
    /\ title_words = <<>>
    /\ content_words = <<>>
    /\ returned_score = 0

\* No row is followed by the hour.
NoClock ==
    /\ clock = 0
    /\ created = 0
    /\ utc_offset = 0
    /\ loaded = "none"

Constructed ==
    /\ pc = "Starting"
    /\ sent_articles_cache = load_sent_articles_cache(articles)
    /\ source_index = 1
    /\ all_articles = <<>>
    /\ high_impact_articles = <<>>
    /\ article_index = 1
    /\ sleeping = 0
    /\ found = 0
    /\ left_out = {}
    /\ deliveries = NoDeliveries
    /\ deliveries_before = NoDeliveries
    /\ failed_sends = {}
    /\ confirmed = SentRows(articles)
    /\ failed_sources = {}
    /\ attempted = <<>>
    /\ last_send = "none"
    /\ urgency = "none"
    /\ pinned = "none"
    /\ republished = FALSE
    /\ repeat = FALSE
    /\ hashed = {}
    /\ error_from = "none"
    /\ stop_from = "none"
    /\ notice = "none"

Init ==
    /\ feeds \in [Sources -> Documents]
    /\ articles \in Tables
    /\ backlog \in Backlogs
    /\ Constructed
    /\ NotScoring
    /\ NoClock

(***************************************************************************)
(* run_monitoring                                                          *)
(***************************************************************************)
\* Every source was scraped in this cycle, and none failed.
FetchedAll == source_index > NumSources /\ failed_sources = {}

\* The top of the while loop: a new cycle begins.
BeginCycle ==
    /\ pc' = "Scraping"
    /\ source_index' = 1
    /\ all_articles' = <<>>
    /\ high_impact_articles' = <<>>
    /\ article_index' = 1
    /\ found' = 0
    /\ left_out' = {}
    /\ sleeping' = 0
    /\ deliveries_before' = deliveries
    /\ deliveries' = NoDeliveries
    /\ repeat' = (FetchedAll /\ ~republished)
    /\ republished' = FALSE
    /\ failed_sources' = {}
    /\ attempted' = <<>>
    /\ last_send' = "none"
    /\ urgency' = "none"
    /\ pinned' = "none"
    /\ hashed' = {}

\* A handler that ends the loop.
HandleException_break(cause) ==
    /\ pc' = "Stopped"
    /\ sleeping' = 0
    /\ error_from' = cause

\* except Exception: print, sleep 5 minutes, loop again.
HandleException(cause) ==
    /\ pc' = "Recovering"
    /\ sleeping' = RetryInterval
    /\ error_from' = cause

\* except KeyboardInterrupt: leave the cycle for the shutdown notice.
HandleKeyboardInterrupt ==
    /\ pc' = "Stopping"
    /\ stop_from' = pc

\* send_startup_message swallows its own failure; then the loop starts.
Startup ==
    /\ pc = "Starting"
    /\ BeginCycle
    /\ UNCHANGED << probe_vars, feeds, store_vars, failed_sends, confirmed, error_from,
                    stop_from, notice >>

(***************************************************************************)
(* scrape_all_sources, a source at a time.                                 *)
(***************************************************************************)
\* After the last source: sort, keep the top 10, return to the send loop.
AfterSource(scraped) ==
    LET all == all_articles \o scraped
    IN  /\ source_index' = source_index + 1
        /\ IF source_index = NumSources
           THEN /\ pc' = "Sending"
                /\ all_articles' = <<>>
                /\ high_impact_articles' = SelectTop(all)
                /\ found' = Len(all)
                /\ left_out' = LeftOut(all, high_impact_articles')
                /\ failed_sends' = {}
           ELSE /\ pc' = pc
                /\ all_articles' = all
                /\ UNCHANGED << high_impact_articles, found, left_out, failed_sends >>
        /\ UNCHANGED << article_index, sleeping >>

Scraped ==
    scrape_rss_feed(source_index, FeedDocuments[feeds[source_index]],
                    sent_articles_cache, Len(all_articles))

\* The feed is fetched and parsed, its articles are saved.
ScrapeSource ==
    /\ pc = "Scraping"
    /\ articles' = SaveAll(articles, Scraped)
    /\ hashed' = hashed \cup HashedScores(FeedDocuments[feeds[source_index]])
    /\ AfterSource(Scraped)
    /\ UNCHANGED << probe_vars, feeds, sent_articles_cache, backlog, deliveries,
                    deliveries_before, confirmed, failed_sources, attempted,
                    last_send, urgency, pinned, republished, repeat, error_from, stop_from, notice >>

\* A fetch failure that is not caught in scrape_rss_feed.
ScrapeFails_raises ==
    /\ pc = "Scraping"
    /\ HandleException("scrape_rss_feed")
    /\ failed_sources' = failed_sources \cup {source_index}
    /\ repeat' = FALSE
    /\ UNCHANGED << probe_vars, feeds, store_vars, cycle_vars, deliveries, deliveries_before,
                    failed_sends, confirmed, attempted, last_send, urgency, pinned, republished,
                    hashed, stop_from, notice >>

\* requests.get, raise_for_status or the parse raises: it is caught in
\* scrape_rss_feed, which returns no article.
ScrapeFails ==
    /\ pc = "Scraping"
    /\ AfterSource(<<>>)
    /\ failed_sources' = failed_sources \cup {source_index}
    /\ repeat' = FALSE
    /\ UNCHANGED << probe_vars, feeds, store_vars, deliveries, deliveries_before, confirmed,
                    attempted, last_send, urgency, pinned, republished, hashed, error_from,
                    stop_from, notice >>

\* save_article raises (the database is locked, the disk is full) after
\* some of the articles of the source are saved: the cycle ends there.
ScrapeSaveRaises ==
    /\ pc = "Scraping"
    /\ Scraped # <<>>
    /\ \E saved \in 0..(Len(Scraped) - 1) :
           articles' = SaveAll(articles, SubSeq(Scraped, 1, saved))
    /\ hashed' = hashed \cup HashedScores(FeedDocuments[feeds[source_index]])
    /\ HandleException("save_article")
    /\ UNCHANGED << probe_vars, feeds, sent_articles_cache, backlog, cycle_vars, deliveries,
                    deliveries_before, failed_sends, confirmed, failed_sources,
                    attempted, last_send, urgency, pinned, republished, repeat, stop_from, notice >>

(***************************************************************************)
(* The send loop: send_to_channel, then save_article(sent_to_channel=True) *)
(* when it returned True.                                                  *)
(***************************************************************************)
Article == high_impact_articles[article_index]

\* An urgency with > where the code has >=.
Urgency_above(importance_score) ==
    IF importance_score > UrgentScore THEN "URGENT"
    ELSE IF importance_score > BreakingScore THEN "BREAKING"
    ELSE "HIGH IMPACT"

\* urgency of send_to_channel
Urgency(importance_score) ==
    IF importance_score >= UrgentScore THEN "URGENT"
    ELSE IF importance_score >= BreakingScore THEN "BREAKING"
    ELSE "HIGH IMPACT"

\* pin_message of send_to_channel
pin_message(importance_score) == importance_score >= UrgentScore

\* What can become of the pin once the message is sent: "none" when it is
\* not asked for.
PinOutcomes(importance_score) ==
    IF pin_message(importance_score) THEN {"pinned", "failed"} ELSE {"none"}

Sending == pc = "Sending" /\ article_index <= Len(high_impact_articles)

Delivered(h) == [deliveries EXCEPT ![h] = Min(@ + 1, 2)]

\* send_to_channel is called with the article and returns.
Attempt(result, pin) ==
    /\ attempted' = Append(attempted, Article.disc)
    /\ last_send' = result
    /\ urgency' = Urgency(Article.importance_score)
    /\ pinned' = pin

\* send_to_channel returns True: the hash is cached; then the row is marked.
SendSucceeds(pin) ==
    /\ sent_articles_cache' = sent_articles_cache \cup {Article.content_hash}
    /\ articles' = save_article(articles, Article, TRUE)
    /\ deliveries' = Delivered(Article.content_hash)
    /\ confirmed' = confirmed \cup {Article.content_hash}
    /\ Attempt("sent", pin)
    /\ article_index' = article_index + 1

\* The message is sent, and pinned when its score asks for it.
SendArticle ==
    /\ Sending
    /\ SendSucceeds(IF pin_message(Article.importance_score) THEN "pinned" ELSE "none")
    /\ UNCHANGED << probe_vars, pc, feeds, backlog, source_index, all_articles,
                    high_impact_articles, sleeping, found, left_out, deliveries_before,
                    failed_sends, failed_sources, republished, repeat, hashed,
                    error_from, stop_from, notice >>

\* A pin failure that reaches the handler of send_to_channel: it returns
\* False.
SendPinFails_raises ==
    /\ Sending
    /\ pin_message(Article.importance_score)
    /\ failed_sends' = failed_sends \cup {Article.content_hash}
    /\ Attempt("failed", "failed")
    /\ article_index' = article_index + 1
    /\ UNCHANGED << probe_vars, pc, feeds, store_vars, source_index, all_articles,
                    high_impact_articles, sleeping, found, left_out, deliveries,
                    deliveries_before, confirmed, failed_sources, republished,
                    repeat, hashed, error_from, stop_from, notice >>

\* The message is sent, pin_chat_message raises: the bare except passes.
SendPinFails ==
    /\ Sending
    /\ pin_message(Article.importance_score)
    /\ SendSucceeds("failed")
    /\ UNCHANGED << probe_vars, pc, feeds, backlog, source_index, all_articles,
                    high_impact_articles, sleeping, found, left_out, deliveries_before,
                    failed_sends, failed_sources, republished, repeat, hashed,
                    error_from, stop_from, notice >>

\* A send failure that is not caught in send_to_channel.
SendFails_raises ==
    /\ Sending
    /\ failed_sends' = failed_sends \cup {Article.content_hash}
    /\ Attempt("failed", "none")
    /\ HandleException("send_to_channel")
    /\ UNCHANGED << probe_vars, feeds, store_vars, cycle_vars, deliveries, deliveries_before,
                    confirmed, failed_sources, republished, repeat, hashed,
                    stop_from, notice >>

\* bot.send_message raises: send_to_channel returns False, the loop goes on.
SendFails ==
    /\ Sending
    /\ failed_sends' = failed_sends \cup {Article.content_hash}
    /\ Attempt("failed", "none")
    /\ article_index' = article_index + 1
    /\ UNCHANGED << probe_vars, pc, feeds, store_vars, source_index, all_articles,
                    high_impact_articles, sleeping, found, left_out, deliveries,
                    deliveries_before, confirmed, failed_sources, republished,
                    repeat, hashed, error_from, stop_from, notice >>

\* The message is sent and the hash cached, then save_article raises.
SendSaveRaises ==
    /\ Sending
    /\ sent_articles_cache' = sent_articles_cache \cup {Article.content_hash}
    /\ deliveries' = Delivered(Article.content_hash)
    /\ confirmed' = confirmed \cup {Article.content_hash}
    /\ \E pin \in PinOutcomes(Article.importance_score) : Attempt("sent", pin)
    /\ HandleException("save_article")
    /\ UNCHANGED << probe_vars, feeds, articles, backlog, cycle_vars, deliveries_before,
                    failed_sends, failed_sources, republished, repeat, hashed,
                    stop_from, notice >>

(***************************************************************************)
(* The end of the cycle: the cache is rebuilt when it holds more than 1000 *)
(* hashes, then the loop sleeps an hour.                                   *)
(***************************************************************************)
BatchDone == pc = "Sending" /\ article_index > Len(high_impact_articles)

CacheTooLarge == Cardinality(sent_articles_cache) + backlog > CacheLimit

FinishCycle ==
    /\ BatchDone
    /\ IF CacheTooLarge
       THEN /\ sent_articles_cache' = load_sent_articles_cache(articles)
            /\ backlog' \in {b \in Backlogs : b <= backlog}
       ELSE UNCHANGED << sent_articles_cache, backlog >>
    /\ pc' = "Sleeping"
    /\ sleeping' = CheckInterval
    /\ error_from' = "none"
    /\ UNCHANGED << probe_vars, feeds, articles, cycle_vars, history_vars, stop_from, notice >>

\* The query of load_sent_articles_cache raises.
RebuildRaises ==
    /\ BatchDone
    /\ CacheTooLarge
    /\ HandleException("load_sent_articles_cache")
    /\ UNCHANGED << probe_vars, feeds, store_vars, cycle_vars, history_vars, stop_from, notice >>

\* asyncio.sleep(3600) or asyncio.sleep(300) returns: the next iteration.
Wake ==
    /\ pc \in {"Sleeping", "Recovering"}
    /\ BeginCycle
    /\ UNCHANGED << probe_vars, feeds, store_vars, failed_sends, confirmed, error_from,
                    stop_from, notice >>

(***************************************************************************)
(* The stop signal.  Inside the try of the loop it is caught by            *)
(* except KeyboardInterrupt; in the startup message and in the sleep of    *)
(* the except Exception handler it leaves run_monitoring, and main         *)
(* catches it.                                                             *)
(***************************************************************************)
\* A signal that is noted and honoured at the end of the cycle only.
KeyboardInterrupt_deferred ==
    /\ pc \in {"Scraping", "Sending"}
    /\ stop_from = "none"
    /\ stop_from' = pc
    /\ UNCHANGED << probe_vars, notice, pc, feeds, store_vars, cycle_vars, sleeping, history_vars,
                    error_from >>

KeyboardInterrupt ==
    /\ pc \in {"Scraping", "Sending", "Sleeping"}
    /\ HandleKeyboardInterrupt
    /\ UNCHANGED << probe_vars, notice, feeds, store_vars, cycle_vars, sleeping, history_vars,
                    error_from >>

\* The signal arrives when the message is sent and cached, before
\* save_article.
KeyboardInterruptAfterSend ==
    /\ Sending
    /\ sent_articles_cache' = sent_articles_cache \cup {Article.content_hash}
    /\ deliveries' = Delivered(Article.content_hash)
    /\ confirmed' = confirmed \cup {Article.content_hash}
    /\ \E pin \in PinOutcomes(Article.importance_score) : Attempt("sent", pin)
    /\ HandleKeyboardInterrupt
    /\ UNCHANGED << probe_vars, notice, feeds, articles, backlog, cycle_vars, sleeping,
                    deliveries_before, failed_sends, failed_sources,
                    republished, repeat, hashed, error_from >>

KeyboardInterruptOutsideTry ==
    /\ pc \in {"Starting", "Recovering"}
    /\ pc' = "Stopped"
    /\ stop_from' = pc
    /\ UNCHANGED << probe_vars, notice, feeds, store_vars, cycle_vars, sleeping, history_vars,
                    error_from >>

\* The shutdown notice is attempted: it is sent, or it fails and the bare
\* except passes; either way the loop breaks.
ShutdownNotice ==
    /\ pc = "Stopping"
    /\ pc' = "Stopped"
    /\ notice' = "attempted"
    /\ UNCHANGED << probe_vars, feeds, store_vars, cycle_vars, sleeping, history_vars,
                    error_from, stop_from >>

(***************************************************************************)
(* The environment: time passes and the feeds change while the loop        *)
(* sleeps; the stopped bot is started again.                               *)
(***************************************************************************)
\* A sent row gets older than the week of load_sent_articles_cache.
WeekPasses ==
    /\ pc \in {"Sleeping", "Recovering"}
    /\ \E h \in Hashes :
           /\ articles[h].sent_to_channel /\ articles[h].recent
           /\ articles' = [articles EXCEPT ![h].recent = FALSE]
    /\ UNCHANGED << probe_vars, pc, feeds, sent_articles_cache, backlog, cycle_vars,
                    sleeping, history_vars, error_from, stop_from, notice >>

\* A source serves another document.
Publish ==
    /\ pc \in {"Sleeping", "Recovering"}
    /\ \E s \in Sources, d \in Documents :
           /\ feeds[s] # d
           /\ feeds' = [feeds EXCEPT ![s] = d]
    /\ republished' = TRUE
    /\ UNCHANGED << probe_vars, pc, store_vars, cycle_vars, sleeping, deliveries,
                    deliveries_before, failed_sends, confirmed, failed_sources,
                    attempted, last_send, urgency, pinned, repeat, hashed, error_from, stop_from, notice >>

\* main() again: a new bot on the same database.
Restart ==
    /\ pc = "Stopped"
    /\ pc' = "Starting"
    /\ sent_articles_cache' = load_sent_articles_cache(articles)
    /\ backlog' \in {b \in Backlogs : b <= backlog}
    /\ source_index' = 1
    /\ all_articles' = <<>>
    /\ high_impact_articles' = <<>>
    /\ article_index' = 1
    /\ sleeping' = 0
    /\ found' = 0
    /\ left_out' = {}
    /\ deliveries' = NoDeliveries
    /\ deliveries_before' = NoDeliveries
    /\ failed_sends' = {}
    /\ confirmed' = SentRows(articles)
    /\ failed_sources' = {}
    /\ attempted' = <<>>
    /\ last_send' = "none"
    /\ urgency' = "none"
    /\ pinned' = "none"
    /\ republished' = FALSE
    /\ repeat' = FALSE
    /\ hashed' = {}
    /\ error_from' = "none"
    /\ stop_from' = "none"
    /\ notice' = "none"
    /\ UNCHANGED << probe_vars, feeds, articles >>

Next ==
    \/ Startup
    \/ ScrapeSource
    \/ ScrapeFails
    \/ ScrapeSaveRaises
    \/ SendArticle
    \/ SendPinFails
    \/ SendFails
    \/ SendSaveRaises
    \/ FinishCycle
    \/ RebuildRaises
    \/ Wake
    \/ KeyboardInterrupt
    \/ KeyboardInterruptAfterSend
    \/ KeyboardInterruptOutsideTry
    \/ ShutdownNotice
    \/ WeekPasses
    \/ Publish
    \/ Restart

Spec == Init /\ [][Next]_vars

\* asyncio.sleep returns: a sleeping loop wakes up.
LiveSpec == Spec /\ WF_vars(Wake)

(***************************************************************************)
(* calculate_importance_score called on its own, with a title and a        *)
(* content made of the phrases of a vocabulary, joined by spaces.          *)
(***************************************************************************)
Vocabulary ==
    << <<"A", "p", "p", "l", "e", " ", "a", "n", "n", "o", "u", "n", "c", "e", "s", " ", "B", "R", "E", "A", "K", "I", "N", "G", " ", "a", "c", "q", "u", "i", "s", "i", "t", "i", "o", "n">>,
       <<"L", "o", "c", "a", "l", " ", "c", "a", "f", "e", " ", "o", "p", "e", "n", "s", " ", "d", "o", "w", "n", "t", "o", "w", "n">>,
       <<"i", "p", "o">>,
       <<"M", "e", "t", "a", "v", "e", "r", "s", "e">>,
       <<"I", "n", "d", "i", "a", "n">>,
       <<"M", "a", "j", "o", "r", " ", "a", "l", "e", "r", "t">> >>

MaxTitleWords == 2

MaxContentWords == 1

RECURSIVE Join(_)
Join(words) ==
    IF words = <<>> THEN <<>>
    ELSE IF Len(words) = 1 THEN Vocabulary[words[1]]
    ELSE Vocabulary[words[1]] \o <<" ">> \o Join(Tail(words))

\* The loop is constructed on an empty database and does not run.
LoopAtRest ==
    /\ feeds = [s \in Sources |-> 1]
    /\ articles = [h \in Hashes |-> NoRow]
    /\ backlog = 0
    /\ Constructed

ScoreInit ==
    /\ LoopAtRest
    /\ NoClock
    /\ title_words = <<>>
    /\ content_words = <<>>
    /\ returned_score = calculate_importance_score(<<>>, <<>>)

\* The call with one more phrase in the title.
TitleWord ==
    /\ Len(title_words) < MaxTitleWords
    /\ \E w \in 1..Len(Vocabulary) :
           /\ title_words' = Append(title_words, w)
           /\ returned_score' =
                  calculate_importance_score(Join(title_words'), Join(content_words))
    /\ UNCHANGED << loop_vars, time_vars, content_words >>

\* The call with one more phrase in the content.
ContentWord ==
    /\ Len(content_words) < MaxContentWords
    /\ \E w \in 1..Len(Vocabulary) :
           /\ content_words' = Append(content_words, w)
           /\ returned_score' =
                  calculate_importance_score(Join(title_words), Join(content_words'))
    /\ UNCHANGED << loop_vars, time_vars, title_words >>

ScoreNext ==
    \/ TitleWord
    \/ ContentWord

ScoreSpec == ScoreInit /\ [][ScoreNext]_vars

(***************************************************************************)
(* The query of load_sent_articles_cache on one row with                   *)
(* sent_to_channel = 1, followed by the hour.  created_at is written by    *)
(* SQLite's CURRENT_TIMESTAMP, in UTC, as YYYY-MM-DD HH:MM:SS; week_ago is *)
(* datetime.now() less 7 days, in local time, as isoformat writes it, with *)
(* a T between the date and the time (and microseconds after the seconds,  *)
(* which the comparison never reaches).  SQLite compares the two as text.  *)
(***************************************************************************)
WeekDays == 7

MaxDays == 9

UTCOffsets == {0 - 8, 0, 5}

TwoDigits(n) == << Digits[(n \div 10) + 1], Digits[(n % 10) + 1] >>

\* The days are counted from 2026-01-01; the days before it are of December.
DateText(day) ==
    IF day >= 0
    THEN <<"2", "0", "2", "6", "-", "0", "1", "-">> \o TwoDigits(day + 1)
    ELSE <<"2", "0", "2", "5", "-", "1", "2", "-">> \o TwoDigits(32 + day)

TimeText(hour) == TwoDigits(hour) \o <<":", "0", "0", ":", "0", "0">>

CURRENT_TIMESTAMP(hours) ==
    DateText(hours \div 24) \o <<" ">> \o TimeText(hours % 24)

isoformat(hours) ==
    DateText(hours \div 24) \o <<"T">> \o TimeText(hours % 24)

\* week_ago = (datetime.now() - timedelta(days=7)).isoformat()
week_ago(now, offset) == isoformat(now + offset - WeekDays * 24)

\* The characters of the two texts, in the order of their codes.
AsciiOrder ==
    <<" ", "-", "0", "1", "2", "3", "4", "5", "6", "7", "8", "9", ":", "T">>

Ascii(c) == CHOOSE i \in 1..Len(AsciiOrder) : AsciiOrder[i] = c

\* a > b in SQLite's BINARY collation.
RECURSIVE TextGreater(_, _)
TextGreater(a, b) ==
    IF a = <<>> THEN FALSE
    ELSE IF b = <<>> THEN TRUE
    ELSE IF Head(a) = Head(b) THEN TextGreater(Tail(a), Tail(b))
    ELSE Ascii(Head(a)) > Ascii(Head(b))

\* WHERE sent_to_channel = 1 AND created_at > ?
InQuery(created_hours, now, offset) ==
    TextGreater(CURRENT_TIMESTAMP(created_hours), week_ago(now, offset))

\* The row is written in the first day, at the hour the clock shows.
TimeInit ==
    /\ LoopAtRest
    /\ NotScoring
    /\ created \in 0..23
    /\ clock = created
    /\ utc_offset \in UTCOffsets
    /\ loaded = "none"

HourPasses ==
    /\ clock < MaxDays * 24
    /\ clock' = clock + 1
    /\ loaded' = "none"
    /\ UNCHANGED << loop_vars, score_vars, created, utc_offset >>

\* load_sent_articles_cache runs: at a startup, or at the end of a cycle.
LoadCache ==
    /\ loaded' = IF InQuery(created, clock, utc_offset) THEN "cached" ELSE "dropped"
    /\ UNCHANGED << loop_vars, score_vars, clock, created, utc_offset >>

TimeNext ==
    \/ HourPasses
    \/ LoadCache

TimeSpec == TimeInit /\ [][TimeNext]_vars

(***************************************************************************)
(* Properties.                                                             *)
(***************************************************************************)
Selected == 1..Len(high_impact_articles)

\* The fetch of this cycle is over: the articles are selected.
FetchDone == pc \in {"Sending", "Sleeping"}

\* C1 (as the spec states it): when a cycle fetches the entries the cycle
\* before fetched, no hash is sent with success more than once over the two
\* cycles.
C1_DeliveredAtMostOnce ==
    (FetchDone /\ repeat) =>
        \A h \in Hashes : deliveries[h] + deliveries_before[h] <= 1

\* The part of C1 the code keeps: a hash sent with success in a cycle is not
\* sent again in the next cycle that fetches the same entries.
NoSendAfterDelivery ==
    (FetchDone /\ repeat) =>
        \A h \in Hashes : ~(deliveries[h] > 0 /\ deliveries_before[h] > 0)

\* C2 (as the spec states it): a hash whose send failed is not in the cache
\* and its row is not marked sent, from the failure until the next batch
\* is selected, so that the entry is a candidate of the next cycle.
C2_FailedSendStaysEligible ==
    \A h \in failed_sends :
        /\ h \notin sent_articles_cache
        /\ ~articles[h].sent_to_channel

\* No hash is twice in the selection.
NoDuplicateSelected ==
    \A i, j \in Selected :
        i # j => high_impact_articles[i].content_hash # high_impact_articles[j].content_hash

\* C3: no article scoring less than 7 is a candidate, is saved or is sent,
\* and the content hash (hence the cache) is reached with scores of 7 or
\* more only.
C3_Threshold ==
    /\ \A i \in 1..Len(all_articles) :
           all_articles[i].importance_score >= ImportanceThreshold
    /\ \A i \in Selected :
           high_impact_articles[i].importance_score >= ImportanceThreshold
    /\ \A score \in hashed : score >= ImportanceThreshold
    /\ \A h \in Hashes \ HighImpactHashes :
           /\ ~articles[h].present
           /\ deliveries[h] = 0
           /\ h \notin failed_sends
           /\ h \notin sent_articles_cache

\* C3's case: both sources served their document (each has entries scoring
\* 6 and 0) and articles were selected.
C3_Witness ==
    /\ pc = "Sending"
    /\ failed_sources = {}
    /\ Len(high_impact_articles) > 0
    /\ hashed # {}

\* C4: scrape_all_sources returns at most 10 articles and a cycle calls
\* send_to_channel at most 10 times.
C4_BatchSize ==
    /\ Len(high_impact_articles) <= TopArticles
    /\ Len(attempted) <= TopArticles

\* C4's case: more than 10 articles qualified and the batch was sent.
C4_Witness ==
    /\ pc = "Sleeping"
    /\ found > TopArticles
    /\ Len(attempted) = TopArticles

\* C5: the selection is in non-increasing score order, equal scores are in
\* discovery order (source by source, then in feed order), and the sends
\* are attempted in the order of the selection.
C5_RankingStable ==
    /\ \A i, j \in Selected :
           i < j =>
               LET a == high_impact_articles[i]
                   b == high_impact_articles[j]
               IN  /\ a.importance_score >= b.importance_score
                   /\ a.importance_score = b.importance_score =>
                          /\ a.disc < b.disc
                          /\ a.source <= b.source
    /\ Len(attempted) <= Len(high_impact_articles)
    /\ \A i \in 1..Len(attempted) : attempted[i] = high_impact_articles[i].disc

\* C5's case: a batch was sent in which the sort moved a later article ahead
\* of an earlier one and left two articles of equal score and different
\* titles, from different sources, in their order.
C5_Witness ==
    /\ pc = "Sleeping"
    /\ Len(attempted) = Len(high_impact_articles)
    /\ \E i, j \in Selected :
           /\ i < j
           /\ high_impact_articles[i].disc > high_impact_articles[j].disc
    /\ \E i, j \in Selected :
           /\ i < j
           /\ high_impact_articles[i].importance_score
                  = high_impact_articles[j].importance_score
           /\ high_impact_articles[i].title # high_impact_articles[j].title
           /\ high_impact_articles[i].source # high_impact_articles[j].source

\* C6: an exception that leaves the cycle body puts the loop in Recovering
\* with the 5-minute sleep, not the hourly one; from Recovering the loop
\* starts a new cycle at the first source, unless the stop signal arrives;
\* and the loop is Stopped by the stop signal only.
C6_RecoversFromError ==
    /\ [](pc = "Recovering" => sleeping = RetryInterval /\ error_from # "none")
    /\ [](pc = "Stopped" => stop_from # "none")
    /\ [][pc = "Recovering" =>
            \/ pc' = "Recovering"
            \/ pc' = "Scraping" /\ source_index' = 1 /\ all_articles' = <<>>
            \/ pc' = "Stopped" /\ stop_from' = "Recovering"]_vars
    /\ (pc = "Recovering") ~> (pc = "Scraping" \/ pc = "Stopped")

\* C6's case: a cycle is sending its batch after the cycle before it ended
\* with an exception.
C6_Witness ==
    /\ pc = "Sending"
    /\ error_from = "save_article"
    /\ attempted # <<>>
    /\ stop_from = "none"

C8_SentOnlyAfterSend ==
    \A h \in Hashes :
        (articles[h].present /\ articles[h].sent_to_channel) => h \in confirmed

\* C8's case: in one batch a hash was sent and its row marked, and the row
\* of a hash whose send failed is not marked.
C8_Witness ==
    /\ \E h \in Hashes : deliveries[h] > 0 /\ articles[h].sent_to_channel
    /\ \E h \in failed_sends : articles[h].present /\ ~articles[h].sent_to_channel

\* The articles the sources that did not fail give, with the cache as it is.
RECURSIVE FoundFrom(_, _)
FoundFrom(sources, n) ==
    IF sources = {} THEN n
    ELSE LET s == CHOOSE x \in sources : TRUE
         IN  FoundFrom(sources \ {s},
                 n + Len(scrape_rss_feed(s, FeedDocuments[feeds[s]],
                                         sent_articles_cache, 0)))

\* C9: a source whose fetch fails gives no article to the cycle, the other
\* sources are scraped and give theirs, and the failure is no cycle error.
C9_SourceFailureIsolated ==
    /\ \A i \in 1..Len(all_articles) : all_articles[i].source \notin failed_sources
    /\ \A i \in Selected : high_impact_articles[i].source \notin failed_sources
    /\ (pc = "Sending" /\ attempted = <<>>) =>
           /\ source_index = NumSources + 1
           /\ found = FoundFrom(Sources \ failed_sources, 0)
    /\ pc = "Recovering" =>
           error_from \in {"save_article", "load_sent_articles_cache"}

\* C9's case: a source failed, another was scraped and gave articles.
C9_Witness ==
    /\ pc = "Sending"
    /\ failed_sources # {}
    /\ found > 0

\* C10: a send that fails leaves the loop in the batch, at the next article;
\* at the hourly sleep every selected article has been attempted; and the
\* loop is never in the error backoff because of a send.
C10_SendFailureIsolated ==
    /\ [][(attempted' # attempted /\ last_send' = "failed") =>
            /\ pc = "Sending" /\ pc' = "Sending"
            /\ article_index' = article_index + 1
            /\ sleeping' = 0]_vars
    /\ [](pc = "Sleeping" =>
            /\ Len(attempted) = Len(high_impact_articles)
            /\ sleeping = CheckInterval)
    /\ [](pc = "Recovering" =>
            error_from \in {"save_article", "load_sent_articles_cache"})

\* C10's case: the batch is done and the loop sleeps the hour; a send of
\* the batch failed and a later one succeeded.
C10_Witness ==
    /\ pc = "Sleeping"
    /\ failed_sends # {}
    /\ last_send = "sent"
    /\ Len(attempted) >= 2

(***************************************************************************)
(* The stop, the cut, the urgency and the store.                           *)
(***************************************************************************)
\* C12: on an explicit stop signal the loop reaches Stopped whether the
\* shutdown notification succeeds or fails: the notification is attempted
\* once, its failure is swallowed, and no cycle, send or sleep follows.
C12_StopNotifiesOnce ==
    pc = "Stopped" => notice = "attempted"

\* The article the last send_to_channel of the cycle was called with.
LastAttempted == high_impact_articles[Len(attempted)]

\* C13: the cap keeps the highest-scoring candidates: no candidate that is
\* left out has a strictly higher score than a selected article, and an
\* article of score 15 is left out only when 10 candidates found before it
\* score 15 too.
C13_CapKeepsHighest ==
    \A a \in left_out :
        /\ \A i \in Selected :
               a.importance_score <= high_impact_articles[i].importance_score
        /\ a.importance_score = 15 =>
               Cardinality({i \in Selected :
                   /\ high_impact_articles[i].importance_score = 15
                   /\ high_impact_articles[i].disc < a.disc}) = 10

\* An article of score 15 and an article of score 8 are left out.
C13_Witness ==
    /\ \E a \in left_out : a.importance_score = 15
    /\ \E a \in left_out : a.importance_score = 8
    /\ Len(high_impact_articles) = 10

\* C15: every article that is sent gets one urgency tier by its score: the
\* highest for 12 and more, the second for 9 to 11, the third for 7 and 8
\* only; a pin is requested exactly when the score is 12 or more and the
\* send succeeded.
C15_TierByScore ==
    attempted # <<>> =>
        LET sent_score == LastAttempted.importance_score
        IN  /\ sent_score >= 7
            /\ urgency \in {"URGENT", "BREAKING", "HIGH IMPACT"}
            /\ urgency = "URGENT" <=> sent_score >= 12
            /\ urgency = "BREAKING" <=> sent_score \in 9..11
            /\ urgency = "HIGH IMPACT" <=> sent_score \in 7..8
            /\ pinned # "none" <=> (sent_score >= 12 /\ last_send = "sent")

\* In one cycle articles of score 15, 12, 11 and 9 were sent; the last is
\* the one of score 9, in the second tier and without a pin.
C15_Witness ==
    /\ attempted # <<>>
    /\ {high_impact_articles[i].importance_score : i \in 1..Len(attempted)}
           = {9, 11, 12, 15}
    /\ LastAttempted.importance_score = 9
    /\ last_send = "sent"
    /\ urgency = "BREAKING"
    /\ pinned = "none"

\* C16: a pin failure is ignored: when the send of an article of score 12
\* or more succeeds and the pin fails, the article counts as delivered
\* (its hash is cached, its row is delivered) and the batch goes on.
C16_PinFailureIgnored ==
    (pinned = "failed" /\ pc \in {"Sending", "Sleeping"}) =>
        /\ last_send = "sent"
        /\ LastAttempted.importance_score >= 12
        /\ LastAttempted.content_hash \in sent_articles_cache
        /\ articles[LastAttempted.content_hash].sent_to_channel
        /\ deliveries[LastAttempted.content_hash] > 0
        /\ article_index = Len(attempted) + 1

\* The pin of an article failed; its row is delivered and the send loop is
\* at the next article of the batch.
C16_Witness ==
    /\ pc = "Sending"
    /\ pinned = "failed"
    /\ last_send = "sent"
    /\ articles[LastAttempted.content_hash].sent_to_channel
    /\ article_index <= Len(high_impact_articles)

\* C18: the delivered flag is monotonic: once a row has delivered = true no
\* later operation sets it back to false, the upsert of a later scrape
\* included.
C18_DeliveredMonotonic ==
    [][\A h \in Hashes :
          (articles[h].present /\ articles[h].sent_to_channel)
              => (articles'[h].present /\ articles'[h].sent_to_channel)]_vars

\* C19: within a cycle no fingerprint is sent more than once: the selection
\* never holds two articles with the same fingerprint.
C19_NoDuplicateInCycle ==
    /\ NoDuplicateSelected
    /\ \A h \in Hashes : deliveries[h] <= 1

\* C20: whenever the loop sleeps between cycles, after a normal cycle or in
\* the error backoff, every fingerprint of the cache has a row with
\* delivered = true.
C20_CacheAgreesWithStore ==
    pc \in {"Sleeping", "Recovering"} =>
        \A h \in sent_articles_cache :
            articles[h].present /\ articles[h].sent_to_channel

(***************************************************************************)
(* Eventual delivery, in LiveSpec.                                         *)
(***************************************************************************)
\* The loop is never stopped.
NeverStopped == [](pc \notin {"Stopping", "Stopped"})

\* No fetch fails: every document carries an entry of every high-impact
\* fingerprint among its first 10, so each cycle fetches the article.
FetchedEveryCycle == [](failed_sources = {})

\* The cap of 10 left every article of the fingerprint out of the batch.
CutOut(h) ==
    /\ \E a \in left_out : a.content_hash = h
    /\ \A i \in Selected : high_impact_articles[i].content_hash # h

\* A cycle came to its sleep, the fingerprint was not pushed out by the cap
\* and no send of it failed.
CycleServes(h) == pc = "Sleeping" /\ ~CutOut(h) /\ h \notin failed_sends

\* The article was sent with success and its row says delivered = true.
SentAndMarked(h) ==
    /\ h \in confirmed
    /\ articles[h].present
    /\ articles[h].sent_to_channel

\* An article that the cap left out or whose send failed, and that was not
\* sent with success, is out of the cache and its row says delivered = false.
UndeliveredStaysEligible ==
    \A h \in HighImpactHashes :
        (FetchDone /\ h \notin confirmed /\ (CutOut(h) \/ h \in failed_sends))
            => /\ h \notin sent_articles_cache
               /\ articles[h].present
               /\ ~articles[h].sent_to_channel

\* C21: a high-impact article that every cycle fetches, with the loop never
\* stopped and, again and again, a cycle in which the cap does not push it
\* out and no send of it fails, is eventually sent with success with its
\* row marked delivered = true; until it is sent, an article that the cap
\* left out or whose send failed is out of the cache with delivered = false.
C21_EventualDelivery ==
    /\ \A h \in HighImpactHashes :
           (NeverStopped /\ FetchedEveryCycle /\ []<>CycleServes(h))
               => <>SentAndMarked(h)
    /\ []UndeliveredStaysEligible

(***************************************************************************)
(* The score, in ScoreSpec.                                                *)
(***************************************************************************)
ScoredTitle == Join(title_words)

ScoredContent == Join(content_words)

ScoredText == lower(ScoredTitle \o <<" ">> \o ScoredContent)

\* The keywords of a list that occur in a text.
Found(keywords, text) == {i \in 1..Len(keywords) : IsIn(keywords[i], text)}

\* C11: the score is bounded: 0 <= score <= 15 for every title and
\* description.
C11_ScoreBounded == 0 <= returned_score /\ returned_score <= 15

\* The sum of the weights is over the cap, and the score is the cap.
C11_Witness ==
    /\ CategoryScore(ScoredText) + TitleBonus(lower(ScoredTitle)) > 15
    /\ returned_score = 15

\* C17: the score is min(15, S), where S is 8 for each breaking_urgent
\* keyword in the text, 6 for each high_impact_events keyword, 5 for each
\* tech_breakthroughs keyword, 4 for each indian_companies and
\* global_tech_giants keyword, 8 if the title has an urgency word, 6 if it
\* has a company word, 7 if it has an event word, 3 if it has a locale
\* marker; a keyword of a category that is a title-bonus word counts in
\* both.  "Apple announces BREAKING acquisition" scores 15, "Local cafe
\* opens downtown" scores 0.
C17_ScoreFormula ==
    LET S == 8 * Cardinality(Found(breaking_urgent, ScoredText))
           + 6 * Cardinality(Found(high_impact_events, ScoredText))
           + 5 * Cardinality(Found(tech_breakthroughs, ScoredText))
           + 4 * ( Cardinality(Found(indian_companies, ScoredText))
                 + Cardinality(Found(global_tech_giants, ScoredText)) )
           + (IF Found(urgent_words, lower(ScoredTitle)) # {} THEN 8 ELSE 0)
           + (IF Found(company_words, lower(ScoredTitle)) # {} THEN 6 ELSE 0)
           + (IF Found(event_words, lower(ScoredTitle)) # {} THEN 7 ELSE 0)
           + (IF Found(locale_words, lower(ScoredTitle)) # {} THEN 3 ELSE 0)
    IN  /\ returned_score = IF S < 15 THEN S ELSE 15
        /\ (title_words = <<1>> /\ content_words = <<>>) => returned_score = 15
        /\ (title_words = <<2>> /\ content_words = <<>>) => returned_score = 0

\* The title is "ipo": 6 of the category and 7 of the title, under the cap.
C17_Witness ==
    /\ ScoredTitle = <<"i", "p", "o">>
    /\ content_words = <<>>
    /\ returned_score = 13

(***************************************************************************)
(* The week of the cache, in TimeSpec.                                     *)
(***************************************************************************)
\* C14: after a rebuild of the cache the cache holds exactly the hashes of
\* the rows with delivered = true that were created in the last 7 days.
C14_CacheIsLastWeek ==
    loaded # "none" => (loaded = "cached" <=> clock - created < 7 * 24)

=============================================================================
